---------------------------- MODULE Spec2Model ----------------------------
(***************************************************************************)
(* A model of the tz command line tool (src/src/lib.rs, src/src/main.rs):  *)
(* timezone-name resolution (parse_tz), datetime-string parsing            *)
(* (parse_datetime_in_tz, parse_short_time), conversion (convert) and the  *)
(* flow of main.                                                           *)
(*                                                                         *)
(* Strings are sequences of characters; a character is a one-character     *)
(* TLA+ string, except the two characters named TAB (U+0009) and U0663     *)
(* (ARABIC-INDIC DIGIT THREE, a character the regex class \d matches and   *)
(* str::parse rejects).  Numbers parsed from digit strings are kept as     *)
(* decimal digit sequences so that the 64-bit width of usize and the       *)
(* 32-bit width of i32 are the real ones.                                  *)
(***************************************************************************)
EXTENDS Integers, Sequences, FiniteSets, TLC

VARIABLES clock, overflow_checks, op, args, ret, prev

vars == <<clock, overflow_checks, op, args, ret, prev>>

-----------------------------------------------------------------------------
(* Characters and strings *)

UpperCase == <<"A","B","C","D","E","F","G","H","I","J","K","L","M","N","O","P","Q","R","S","T","U","V","W","X","Y","Z">>

LowerCase == <<"a","b","c","d","e","f","g","h","i","j","k","l","m","n","o","p","q","r","s","t","u","v","w","x","y","z">>

AsciiDigits == <<"0","1","2","3","4","5","6","7","8","9">>

\* char::to_lowercase on the characters of the model
LowerOf == [c \in {UpperCase[i] : i \in 1..26} |->
                LowerCase[CHOOSE i \in 1..26 : UpperCase[i] = c]]

to_lowercase_char(c) == IF c \in DOMAIN LowerOf THEN LowerOf[c] ELSE c

\* str::to_lowercase
to_lowercase(s) == [i \in 1..Len(s) |-> to_lowercase_char(s[i])]

\* str::replace("_", " ")
replace_underscore(s) == [i \in 1..Len(s) |-> IF s[i] = "_" THEN " " ELSE s[i]]

\* str::contains: needle occurs in hay as a contiguous substring
contains(hay, needle) ==
    \E i \in 0..(Len(hay) - Len(needle)) :
        SubSeq(hay, i + 1, i + Len(needle)) = needle

Some(x) == <<"Some", x>>

None == <<"None">>

IsSome(r) == r[1] = "Some"

-----------------------------------------------------------------------------
(* The timezone catalog: a fixture of chrono_tz::TZ_VARIANTS, in its order *)

TZ_VARIANTS ==
    <<"America__New_York", "Asia__Kolkata", "Etc__GMT", "Europe__London", "GMT", "UTC">>

Tz == {TZ_VARIANTS[i] : i \in 1..Len(TZ_VARIANTS)}

\* Tz::name
name(tz) ==
    CASE tz = "America__New_York" -> <<"A","m","e","r","i","c","a","/","N","e","w","_","Y","o","r","k">>
      [] tz = "Asia__Kolkata"     -> <<"A","s","i","a","/","K","o","l","k","a","t","a">>
      [] tz = "Etc__GMT"          -> <<"E","t","c","/","G","M","T">>
      [] tz = "Europe__London"    -> <<"E","u","r","o","p","e","/","L","o","n","d","o","n">>
      [] tz = "GMT"               -> <<"G","M","T">>
      [] tz = "UTC"               -> <<"U","T","C">>

\* <Tz as FromStr>::from_str: the exact, case-sensitive lookup of a name
from_str(s) ==
    IF \E tz \in Tz : name(tz) = s
    THEN <<"Ok", CHOOSE tz \in Tz : name(tz) = s>>
    ELSE <<"Err">>

\* the closure handed to find in parse_tz
variant_matches(variant, tz) ==
    contains(replace_underscore(to_lowercase(name(variant))), tz)

\* find taking the last variant that matches
find_variant_last(tz) ==
    IF \E i \in 1..Len(TZ_VARIANTS) : variant_matches(TZ_VARIANTS[i], tz)
    THEN LET i == CHOOSE k \in 1..Len(TZ_VARIANTS) :
                    /\ variant_matches(TZ_VARIANTS[k], tz)
                    /\ \A j \in (k + 1)..Len(TZ_VARIANTS) : ~variant_matches(TZ_VARIANTS[j], tz)
         IN  Some(TZ_VARIANTS[i])
    ELSE None

\* Iterator::find over TZ_VARIANTS.iter(): the first variant that matches
find_variant(tz) ==
    IF \E i \in 1..Len(TZ_VARIANTS) : variant_matches(TZ_VARIANTS[i], tz)
    THEN LET i == CHOOSE k \in 1..Len(TZ_VARIANTS) :
                    /\ variant_matches(TZ_VARIANTS[k], tz)
                    /\ \A j \in 1..(k - 1) : ~variant_matches(TZ_VARIANTS[j], tz)
         IN  Some(TZ_VARIANTS[i])
    ELSE None

\* parse_tz without the exact lookup
parse_tz_fuzzy_only(tz) == find_variant(to_lowercase(tz))

parse_tz(tz) ==
    IF from_str(tz)[1] = "Ok"
    THEN Some(from_str(tz)[2])
    ELSE find_variant(to_lowercase(tz))

-----------------------------------------------------------------------------
(* Inputs of parse_tz *)

MaxSubLen == 3

FooBar == <<"F","o","o","B","a","r">>

to_uppercase_char(c) ==
    IF \E i \in 1..26 : LowerCase[i] = c
    THEN UpperCase[CHOOSE i \in 1..26 : LowerCase[i] = c]
    ELSE c

to_uppercase(s) == [i \in 1..Len(s) |-> to_uppercase_char(s[i])]

\* the first character's case toggled
toggle_first(s) ==
    IF s = <<>> THEN s
    ELSE [i \in 1..Len(s) |->
            IF i > 1 THEN s[i]
            ELSE IF to_lowercase_char(s[1]) = s[1] THEN to_uppercase_char(s[1])
                 ELSE to_lowercase_char(s[1])]

Spellings(s) ==
    LET cased == {s, to_lowercase(s), to_uppercase(s), toggle_first(s)}
    IN  cased \cup {replace_underscore(c) : c \in cased}

\* the names and their fragments of up to MaxSubLen characters
Fragments ==
    UNION {{name(tz)} \cup
           {SubSeq(name(tz), i, j) : i \in 1..Len(name(tz)),
                                     j \in 0..Len(name(tz))} : tz \in Tz}

TzInputs ==
    UNION {Spellings(s) : s \in {f \in Fragments :
                                    \/ Len(f) <= MaxSubLen
                                    \/ \E tz \in Tz : f = name(tz)}}
    \cup {FooBar}

-----------------------------------------------------------------------------
(* Calendar and zones: chrono's NaiveDate/NaiveDateTime and a fixture of   *)
(* the chrono_tz zone rules, valid for the year 2021                        *)

IsLeap(y) == (y % 4 = 0 /\ y % 100 # 0) \/ y % 400 = 0

DaysInMonth(y, m) ==
    CASE m \in {1, 3, 5, 7, 8, 10, 12} -> 31
      [] m \in {4, 6, 9, 11} -> 30
      [] m = 2 -> IF IsLeap(y) THEN 29 ELSE 28

\* NaiveDate::from_ymd_opt(..).is_some()
ValidDate(y, m, d) == m \in 1..12 /\ d >= 1 /\ d <= DaysInMonth(y, m)

\* days from 1970-01-01 to the civil date y-m-d
DaysFromCivil(y, m, d) ==
    LET yy  == IF m <= 2 THEN y - 1 ELSE y
        era == yy \div 400
        yoe == yy - era * 400
        mp  == IF m > 2 THEN m - 3 ELSE m + 9
        doy == (153 * mp + 2) \div 5 + d - 1
        doe == yoe * 365 + yoe \div 4 - yoe \div 100 + doy
    IN  era * 146097 + doe - 719468

\* a wall-clock reading as seconds from 1970-01-01 00:00:00 on that clock
LocalTs(y, m, d, h, mi, s) == DaysFromCivil(y, m, d) * 86400 + h * 3600 + mi * 60 + s

\* the UTC instants of the 2021 transitions: America/New_York is on EDT
\* from 14 March 07:00 to 7 November 06:00, Europe/London on BST from
\* 28 March 01:00 to 31 October 01:00
NewYorkDst == <<LocalTs(2021, 3, 14, 7, 0, 0), LocalTs(2021, 11, 7, 6, 0, 0)>>

LondonDst == <<LocalTs(2021, 3, 28, 1, 0, 0), LocalTs(2021, 10, 31, 1, 0, 0)>>

\* the UTC offset, in seconds, each zone observes at the UTC instant utc
OffsetAt(tz, utc) ==
    CASE tz = "America__New_York" ->
            IF utc >= NewYorkDst[1] /\ utc < NewYorkDst[2] THEN -14400 ELSE -18000
      [] tz = "Asia__Kolkata" -> 19800
      [] tz = "Europe__London" ->
            IF utc >= LondonDst[1] /\ utc < LondonDst[2] THEN 3600 ELSE 0
      [] OTHER -> 0

\* every offset a zone observes
Offsets(tz) ==
    CASE tz = "America__New_York" -> {-14400, -18000}
      [] tz = "Asia__Kolkata" -> {19800}
      [] tz = "Europe__London" -> {3600, 0}
      [] OTHER -> {0}

\* a DateTime<Tz>: an absolute instant and the zone it is displayed in
DateTime(utc, tz) == [utc |-> utc, tz |-> tz]

\* DateTime::naive_local: the wall-clock reading of an instant in its zone
naive_local(dt) == dt.utc + OffsetAt(dt.tz, dt.utc)

\* the UTC instants whose wall-clock reading in tz is local
LocalCandidates(tz, local) ==
    {u \in {local - o : o \in Offsets(tz)} : u + OffsetAt(tz, u) = local}

Min(S) == CHOOSE x \in S : \A y \in S : x <= y

Max(S) == CHOOSE x \in S : \A y \in S : x >= y

\* a reading of the local clock as a wall-clock timestamp
ClockTs(c) == LocalTs(c.year, c.month, c.day, c.hour, c.minute, 0)

\* a LocalResult: None, Single or Ambiguous, by the instants c that map to
\* the wall-clock reading
LocalResult(tz, c) ==
    CASE c = {} -> <<"None">>
      [] Cardinality(c) = 1 -> <<"Single", DateTime(Min(c), tz)>>
      [] OTHER -> <<"Ambiguous", DateTime(Min(c), tz), DateTime(Max(c), tz)>>

\* TimeZone::from_local_datetime
from_local_datetime(tz, local) == LocalResult(tz, LocalCandidates(tz, local))

\* LocalResult::single
single(r) == IF r[1] = "Single" THEN Some(r[2]) ELSE None

-----------------------------------------------------------------------------
(* chrono::format::parse with the format "%Y-%m-%d %H:%M" *)

\* the ASCII digits, which chrono's scan and str::parse accept
AsciiDigitChars == {AsciiDigits[i] : i \in 1..10}

IsAsciiDigit(c) == c \in AsciiDigitChars

DigitValues == [c \in AsciiDigitChars |-> (CHOOSE i \in 1..10 : AsciiDigits[i] = c) - 1]

DigitVal(c) == DigitValues[c]

\* the regex class \s, and char::is_whitespace
SpaceChars == {" ", "TAB"}

IsSpace(c) == c \in SpaceChars

\* the regex class \d (Unicode decimal digits)
DigitChars == AsciiDigitChars \cup {"U0663"}

IsDigit(c) == c \in DigitChars

\* the length of the longest prefix of s whose characters are all in C
PrefixLen(s, C) ==
    IF \A j \in 1..Len(s) : s[j] \in C THEN Len(s)
    ELSE (CHOOSE k \in 1..Len(s) : s[k] \notin C /\ \A j \in 1..(k - 1) : s[j] \in C) - 1

Drop(s, k) == SubSeq(s, k + 1, Len(s))

\* str::trim_left
trim_left(s) == Drop(s, PrefixLen(s, SpaceChars))

RECURSIVE DigitsToInt(_)
DigitsToInt(ds) ==
    IF ds = <<>> THEN 0
    ELSE DigitsToInt(SubSeq(ds, 1, Len(ds) - 1)) * 10 + DigitVal(ds[Len(ds)])

\* the number read from the first k characters of s, and the rest of s
take_number(s, k) ==
    IF k = 0 THEN <<"Err">>
    ELSE <<"Ok", Drop(s, k), DigitsToInt(SubSeq(s, 1, k))>>

\* chrono::format::scan::number(s, 1, max): between 1 and max ASCII digits
scan_number(s, max) ==
    take_number(s, PrefixLen(SubSeq(s, 1, Min({Len(s), max})), AsciiDigitChars))

\* a numeric item: leading whitespace is skipped, then the number is scanned
scan_numeric(s, max) == scan_number(trim_left(s), max)

\* a literal item: the input must go on with the character c
scan_literal(s, c) ==
    IF Len(s) >= 1 /\ s[1] = c THEN <<"Ok", Drop(s, 1)>> ELSE <<"Err">>

\* StrftimeItems::new("%Y-%m-%d %H:%M")
Items ==
    <<<<"Numeric", 4>>, <<"Literal", "-">>, <<"Numeric", 2>>, <<"Literal", "-">>,
      <<"Numeric", 2>>, <<"Space">>, <<"Numeric", 2>>, <<"Literal", ":">>,
      <<"Numeric", 2>>>>

\* one item of the format matched against the input
scan_item(s, item) ==
    CASE item[1] = "Numeric" -> scan_numeric(s, item[2])
      [] item[1] = "Literal" -> scan_literal(s, item[2])
      [] item[1] = "Space"   -> <<"Ok", trim_left(s)>>

RECURSIVE parse_loop(_, _, _)
\* the outcome r of an item: an error ends the parse, a number is set in the
\* fields, and the loop goes on with the rest of the input
parse_item_result(r, items, fields) ==
    IF r[1] = "Err" THEN <<"Err">>
    ELSE parse_loop(r[2], items, IF Len(r) = 3 THEN Append(fields, r[3]) ELSE fields)

\* the loop of chrono::format::parse over the items; input left over after
\* the last item is an error (TOO_LONG)
parse_loop(s, items, fields) ==
    IF items = <<>>
    THEN IF s # <<>> THEN <<"Err">> ELSE <<"Ok", fields>>
    ELSE parse_item_result(scan_item(s, Head(items)), Tail(items), fields)

\* the fields of Parsed that the format sets, in the order of its items
Parsed(r) ==
    IF r[1] = "Err" THEN <<"Err">>
    ELSE <<"Ok", [year |-> r[2][1], month |-> r[2][2], day |-> r[2][3],
                  hour |-> r[2][4], minute |-> r[2][5]]>>

\* parse(&mut parsed, s, StrftimeItems::new("%Y-%m-%d %H:%M")): the fields
\* read, or an error when an item does not match or input is left over
parse_items(s) == Parsed(parse_loop(s, Items, <<>>))

\* Parsed::to_naive_datetime_with_offset: the fields checked for range
to_naive_datetime(p) ==
    IF /\ ValidDate(p.year, p.month, p.day)
       /\ p.hour \div 12 \in {0, 1}
       /\ p.minute \in 0..59
    THEN <<"Ok", LocalTs(p.year, p.month, p.day, p.hour, p.minute, 0)>>
    ELSE <<"Err">>

\* an ambiguous wall-clock time resolved to its earlier instant
resolve_local_earliest(r) ==
    IF r[1] \in {"Single", "Ambiguous"} THEN <<"Ok", r[2]>> ELSE <<"Err">>

\* the LocalResult handling of Parsed::to_datetime_with_timezone when the
\* input names no offset: only a single mapping is accepted
resolve_local(r) == IF r[1] = "Single" THEN <<"Ok", r[2]>> ELSE <<"Err">>

\* the naive datetime n, when there is one, mapped to an instant of tz
localize(tz, n) ==
    IF n[1] = "Err" THEN <<"Err">>
    ELSE resolve_local(from_local_datetime(tz, n[2]))

\* Parsed::to_datetime_with_timezone on the outcome p of the parse
to_datetime_with_timezone(tz, p) ==
    IF p[1] = "Err" THEN <<"Err">>
    ELSE localize(tz, to_naive_datetime(p[2]))

\* the string read as a UTC time and then displayed in tz
datetime_from_str_utc(tz, s) ==
    LET p == parse_items(s) IN
    IF p[1] = "Err" THEN <<"Err">> ELSE
    LET n == to_naive_datetime(p[2]) IN
    IF n[1] = "Err" THEN <<"Err">> ELSE
    <<"Ok", DateTime(n[2], tz)>>

\* TimeZone::datetime_from_str(s, "%Y-%m-%d %H:%M")
datetime_from_str(tz, s) == to_datetime_with_timezone(tz, parse_items(s))

\* Result::ok
ok(r) == IF r[1] = "Ok" THEN Some(r[2]) ELSE None

-----------------------------------------------------------------------------
(* Integers parsed from digit strings, kept as decimal digit sequences *)

\* usize::MAX on a 64-bit target, 2^64 - 1
UsizeMax == <<"1","8","4","4","6","7","4","4","0","7","3","7","0","9","5","5","1","6","1","5">>

\* i32::MAX, 2^31 - 1
I32Max == <<"2","1","4","7","4","8","3","6","4","7">>

\* a digit sequence without its leading zeros (one digit is always kept)
StripZeros(ds) == Drop(ds, Min({PrefixLen(ds, {"0"}), Len(ds) - 1}))

\* a <= b, for digit sequences without leading zeros
DecLeq(a, b) ==
    \/ Len(a) < Len(b)
    \/ /\ Len(a) = Len(b)
       /\ \/ a = b
          \/ \E i \in 1..Len(a) :
                /\ \A j \in 1..(i - 1) : a[j] = b[j]
                /\ DigitVal(a[i]) < DigitVal(b[i])

\* the value v when it is at most max (PosOverflow otherwise)
in_range(v, max) == IF DecLeq(v, max) THEN <<"Ok", v>> ELSE <<"Err">>

\* str::parse::<usize> and str::parse::<i32> on a string of the regex class
\* \d+: an error for a character that is no ASCII digit and for a value
\* above max
parse_int(s, max) ==
    IF s = <<>> \/ \E i \in 1..Len(s) : ~IsAsciiDigit(s[i]) THEN <<"Err">>
    ELSE in_range(StripZeros(s), max)

RECURSIVE IntToDigits(_)
\* the decimal digits of n >= 0, as format!("{}", n) prints them
IntToDigits(n) ==
    IF n < 10 THEN <<AsciiDigits[n + 1]>>
    ELSE Append(IntToDigits(n \div 10), AsciiDigits[(n % 10) + 1])

RECURSIVE AddDec(_, _)
\* ds + c, for a digit sequence ds and an integer c >= 0
AddDec(ds, c) ==
    IF c = 0 THEN ds
    ELSE IF ds = <<>> THEN IntToDigits(c)
    ELSE LET sum == DigitVal(ds[Len(ds)]) + c
         IN  Append(AddDec(SubSeq(ds, 1, Len(ds) - 1), sum \div 10),
                    AsciiDigits[(sum % 10) + 1])

\* a sum computed in usize: above usize::MAX the addition panics when the
\* build checks overflow (debug) and wraps modulo 2^64 otherwise (release); a
\* wrapped sum of a usize and 12 lies in 2^64 .. 2^64 + 11, whose last two
\* digits are 16 .. 27
usize_sum(sum, checks) ==
    IF DecLeq(sum, UsizeMax) THEN <<"Ok", sum>>
    ELSE IF checks THEN <<"Panic">>
    ELSE <<"Ok", IntToDigits(DigitsToInt(SubSeq(sum, Len(sum) - 1, Len(sum))) - 16)>>

\* the pm branch without its + 12
add_12_forgotten(hour, checks) == <<"Ok", hour>>

\* hour + 12 in usize
add_12(hour, checks) == usize_sum(AddDec(hour, 12), checks)

\* the format specifier {:02} on a non-negative number
pad2(ds) == IF Len(ds) < 2 THEN <<"0">> \o ds ELSE ds

-----------------------------------------------------------------------------
(* src/src/lib.rs: the four regular expressions *)

AllDigits(s, from, to) == \A i \in from..to : IsDigit(s[i])

\* ^\d{4}-\d{2}-\d{2}$
only_date_is_match(s) ==
    /\ Len(s) = 10
    /\ AllDigits(s, 1, 4) /\ s[5] = "-"
    /\ AllDigits(s, 6, 7) /\ s[8] = "-"
    /\ AllDigits(s, 9, 10)

\* ^\d{1,2}:\d{2}$
only_time_is_match(s) ==
    /\ Len(s) \in {4, 5}
    /\ AllDigits(s, 1, Len(s) - 3)
    /\ s[Len(s) - 2] = ":"
    /\ AllDigits(s, Len(s) - 1, Len(s))

\* ^\d{4}-\d{2}-\d{2} \d{1,2}:\d{2}$
date_and_time_is_match(s) ==
    /\ Len(s) \in {15, 16}
    /\ only_date_is_match(SubSeq(s, 1, 10))
    /\ s[11] = " "
    /\ only_time_is_match(Drop(s, 11))

\* a greedy \d+ or (\d+)? at the start of s: its maximal run of digits
digit_run(s) == SubSeq(s, 1, PrefixLen(s, DigitChars))

\* an optional single character of the class C at the start of s, skipped
skip_optional(s, C) == IF Len(s) >= 1 /\ s[1] \in C THEN Drop(s, 1) ELSE s

\* the groups of the short-time regex: group 1 is not empty, group 2 is an
\* Option, and group 3 is everything left over, which must be am or pm
short_time_groups(hour, minute, ampm) ==
    IF hour # <<>> /\ ampm \in {<<"a","m">>, <<"p","m">>}
    THEN <<"Match", hour, IF minute # <<>> THEN Some(minute) ELSE None, ampm>>
    ELSE <<"NoMatch">>

\* the match continued on rest, the input after group 1 and the optional colon
short_time_after_colon(hour, minute, rest) ==
    short_time_groups(hour, minute, skip_optional(Drop(rest, Len(minute)), SpaceChars))

\* the match continued on rest, the input after group 1
short_time_after_hour(hour, rest) ==
    short_time_after_colon(hour, digit_run(rest), rest)

\* ^(\d+):?(\d+)?\s?(am|pm)$ : the captures of a match, or NoMatch.  Each
\* quantifier is greedy and no shorter choice can lead to a match, so the
\* groups are the maximal digit runs.
short_time_captures(s) ==
    short_time_after_hour(digit_run(s), skip_optional(Drop(s, PrefixLen(s, DigitChars)), {":"}))

short_time_is_match(s) == short_time_captures(s)[1] = "Match"

-----------------------------------------------------------------------------
(* src/src/lib.rs: parse_short_time, parse_datetime_in_tz, convert *)

\* the hour of a short time: hour.parse::<usize>().unwrap(), with 12 added
\* for pm
short_time_hour(parsed, ampm, checks) ==
    IF parsed[1] = "Err" THEN <<"Panic">>
    ELSE IF ampm = <<"a","m">> THEN parsed
    ELSE add_12(parsed[2], checks)

\* the minute of a short time: map_or(0, |minute| minute.parse::<i32>().unwrap())
short_time_minute(group) ==
    IF ~IsSome(group) THEN <<"Ok", <<"0">>>>
    ELSE IF parse_int(group[2], I32Max)[1] = "Err" THEN <<"Panic">>
    ELSE parse_int(group[2], I32Max)

\* format!("{}-{:02}-{:02} {:02}:{:02}", ..) unless hour or minute panicked
short_time_format(today, hour, minute) ==
    IF hour[1] = "Panic" \/ minute[1] = "Panic" THEN <<"Panic">>
    ELSE <<"Ok", IntToDigits(today.year) \o <<"-">>
                  \o pad2(IntToDigits(today.month)) \o <<"-">>
                  \o pad2(IntToDigits(today.day)) \o <<" ">>
                  \o pad2(hour[2]) \o <<":">> \o pad2(minute[2])>>

\* today is the reading of Local::now(); checks says whether the build
\* checks integer overflow.  The result is the formatted string, or a panic.
parse_short_time(short_time, today, checks) ==
    short_time_format(today,
        short_time_hour(parse_int(short_time[2], UsizeMax), short_time[4], checks),
        short_time_minute(short_time[3]))

\* the string handed to datetime_from_str: the input normalised by its
\* shape, NoShape for an input of no shape (the early return None), or a
\* panic of parse_short_time
normalize(datetime, today, checks) ==
    IF only_date_is_match(datetime)
    THEN <<"Ok", datetime \o <<" ","0","0",":","0","0">>>>
    ELSE IF short_time_is_match(datetime)
    THEN parse_short_time(short_time_captures(datetime), today, checks)
    ELSE IF only_time_is_match(datetime)
    THEN <<"Ok", IntToDigits(today.year) \o <<"-">> \o IntToDigits(today.month)
                  \o <<"-">> \o IntToDigits(today.day) \o <<" ">> \o datetime>>
    ELSE IF date_and_time_is_match(datetime)
    THEN <<"Ok", datetime>>
    ELSE <<"NoShape">>

\* the end of parse_datetime_in_tz, n being the outcome of normalize
parse_normalized(tz, n) ==
    CASE n[1] = "NoShape" -> <<"Return", None>>
      [] n[1] = "Panic" -> <<"Panic">>
      [] OTHER -> <<"Return", ok(datetime_from_str(tz, n[2]))>>

\* <<"Return", an Option<DateTime<Tz>>>> or <<"Panic">>
parse_datetime_in_tz(tz, datetime, today, checks) ==
    parse_normalized(tz, normalize(to_lowercase(datetime), today, checks))

\* the wall-clock reading kept and relabelled with the zone
convert_wall_clock(dt, to_timezone) ==
    DateTime(naive_local(dt) - OffsetAt(to_timezone, dt.utc), to_timezone)

\* dt.with_timezone(&to_timezone): the same instant, displayed in the zone
convert(dt, to_timezone) == DateTime(dt.utc, to_timezone)

-----------------------------------------------------------------------------
(* Inputs of parse_datetime_in_tz *)

MaxFieldDigits == 20

Y2021 == <<"2","0","2","1">>

\* k nines
Nines(k) == [i \in 1..k |-> "9"]

\* month and day fields of the date inputs: the days of the 2021 transitions
\* of Europe/London and America/New_York, ordinary days and impossible ones
DateFields ==
    {<<1, 1>>, <<7, 9>>, <<3, 28>>, <<10, 31>>, <<3, 14>>, <<11, 7>>,
     <<2, 29>>, <<13, 1>>}

DateInputs ==
    {Y2021 \o <<"-">> \o pad2(IntToDigits(f[1])) \o <<"-">> \o pad2(IntToDigits(f[2])) :
        f \in DateFields}
    \cup {<<"2","0","2","1","-","0","7","-","0","U0663">>}

HourFields ==
    {<<"0">>, <<"1">>, <<"0","1">>, <<"2">>, <<"5">>, <<"0","5">>,
     <<"1","2">>, <<"2","3">>, <<"2","4">>}

MinuteFields == {<<"0","0">>, <<"3","0">>, <<"5","9">>, <<"6","0">>}

TimeInputs ==
    {h \o <<":">> \o m : h \in HourFields, m \in MinuteFields}
    \cup {<<"0","U0663",":","0","0">>}

DateTimeInputs == {d \o <<" ">> \o t : d \in DateInputs, t \in TimeInputs}

ShortHours ==
    {<<"0">>, <<"1">>, <<"3">>, <<"0","3">>, <<"5">>, <<"1","0">>, <<"1","2">>,
     <<"1","3">>, <<"U0663">>}

\* hour fields of many digits: around usize::MAX, and k nines
LongHours ==
    {UsizeMax,
     <<"1","8","4","4","6","7","4","4","0","7","3","7","0","9","5","5","1","6","0","3">>,
     <<"1","8","4","4","6","7","4","4","0","7","3","7","0","9","5","5","1","6","0","4">>,
     <<"0","0","0","0","0","0","0","0","0","0","0","0","0","0","0","0","0","0","0","0","0","5">>}
    \cup {Nines(k) : k \in 2..MaxFieldDigits}

\* what may follow the hour: nothing, a colon, a colon and a minute field
ShortMinutes ==
    {<<>>, <<":">>, <<":","0","0">>, <<":","3","0">>, <<":","5">>, <<":","7","5">>,
     <<":","U0663","0">>}

LongMinutes ==
    {<<":">> \o I32Max,
     <<":","2","1","4","7","4","8","3","6","4","8">>}
    \cup {<<":">> \o Nines(k) : k \in 3..MaxFieldDigits}

Suffixes ==
    {<<"a","m">>, <<"p","m">>, <<"P","M">>, <<" ","a","m">>, <<" ","p","m">>,
     <<"TAB","A","m">>}

ShortInputs ==
    {h \o m \o s : h \in ShortHours, m \in ShortMinutes, s \in Suffixes}
    \cup {h \o m \o s : h \in LongHours, m \in {<<>>, <<":","3","0">>},
                        s \in {<<"a","m">>, <<"p","m">>}}
    \cup {<<"5">> \o m \o <<"p","m">> : m \in LongMinutes}

\* inputs of no shape
OtherInputs ==
    {<<"n","o","t"," ","a"," ","d","a","t","e">>, <<>>, <<"5">>, <<"p","m">>,
     <<"1","2",":","3">>, <<"2","0","2","1","-","7","-","9">>,
     <<"5",":",":","3","0","p","m">>, <<"5",":","3","0"," "," ","p","m">>,
     <<"5"," ",":","3","0","p","m">>,
     <<"2","0","2","1","-","0","7","-","0","9","T","0","5",":","0","0">>}

DatetimeInputs ==
    DateInputs \cup TimeInputs \cup DateTimeInputs \cup ShortInputs \cup OtherInputs

\* the inputs of the calls that are repeated at another time of the clock
RepeatInputs ==
    {<<"0","5",":","0","0">>, <<"3","a","m">>, <<"5",":","3","0","p","m">>,
     <<"2","0","2","1","-","0","7","-","0","9">>,
     <<"2","0","2","1","-","0","7","-","0","9"," ","5",":","0","0">>,
     <<"n","o","t"," ","a"," ","d","a","t","e">>}

RepeatZones == {"Asia__Kolkata", "Europe__London"}

\* the zones of the calls of parse_datetime_in_tz: one of each rule
DatetimeZones == {"America__New_York", "Asia__Kolkata", "Europe__London", "UTC"}

\* the readings of the local clock, Local::now(), the model passes through
Clocks ==
    {[year |-> 2021, month |-> 3, day |-> 28, hour |-> 1, minute |-> 30],
     [year |-> 2021, month |-> 7, day |-> 9, hour |-> 23, minute |-> 59],
     [year |-> 2021, month |-> 7, day |-> 10, hour |-> 0, minute |-> 1]}

\* instants built as in the tests: Zone.ymd(y, m, d).and_hms(h, mi, s)
ymd_and_hms(tz, y, m, d, h, mi, s) == single(from_local_datetime(tz, LocalTs(y, m, d, h, mi, s)))[2]

ConvertInstants ==
    {ymd_and_hms(f[1], 2021, f[2], f[3], f[4], f[5], f[6]) :
        f \in {<<"Europe__London", 1, 1, 8, 8, 8>>,
               <<"Asia__Kolkata", 1, 1, 13, 38, 8>>,
               <<"Asia__Kolkata", 7, 9, 5, 0, 0>>,
               <<"America__New_York", 12, 31, 23, 30, 0>>,
               <<"America__New_York", 11, 7, 0, 59, 59>>,
               <<"Europe__London", 10, 31, 0, 59, 59>>,
               <<"Europe__London", 3, 28, 2, 0, 0>>,
               <<"UTC", 3, 14, 6, 59, 59>>,
               <<"UTC", 3, 14, 7, 0, 0>>,
               <<"GMT", 10, 31, 1, 0, 0>>,
               <<"Etc__GMT", 7, 9, 12, 0, 0>>}}

-----------------------------------------------------------------------------
(* src/src/lib.rs: current_tz; src/src/main.rs: main *)

\* Tz::from_str(..).expect("Invalid TZ!")
expect_tz(r) == IF r[1] = "Ok" THEN r ELSE <<"Panic", "Invalid TZ!">>

\* fs is what the two paths hold: timezone is /etc/timezone (Absent,
\* Unreadable, or a File and its content), localtime is /etc/localtime
\* (Absent, NotALink, or a Link, whether its target starts with
\* /var/db/timezone/zoneinfo/, and the rest of the target).  The result is
\* Ok and a zone, Err for an io::Error, or a panic and its message.
current_tz(fs) ==
    IF fs.timezone[1] # "Absent"
    THEN IF fs.timezone[1] = "Unreadable" THEN <<"Err">>
         ELSE expect_tz(from_str(fs.timezone[2]))
    ELSE IF fs.localtime[1] # "Absent"
    THEN IF fs.localtime[1] = "NotALink" THEN <<"Err">>
         ELSE IF ~fs.localtime[2] THEN <<"Panic", "Failed to strip TZ prefix">>
         ELSE expect_tz(from_str(fs.localtime[3]))
    ELSE <<"Panic", "Failed to read current TZ">>

\* how a run of the program ends: its exit, the panic message or clap's
\* error kind, the values printed on stdout and the lines on stderr
Outcome(exit, msg, stdout, stderr) ==
    [exit |-> exit, msg |-> msg, stdout |-> stdout, stderr |-> stderr]

\* Option::unwrap_or
unwrap_or(option, default) == IF IsSome(option) THEN option[2] ELSE default

\* matches.value_of(..).map(|tz| parse_tz(tz)).flatten().unwrap_or(current_tz)
tz_or_current(value, current) ==
    unwrap_or(IF IsSome(value) THEN parse_tz(value[2]) ELSE None, current)

\* parse_datetime_in_tz(..).expect("Invalid DATETIME"), r being what the call
\* does
expect_datetime(r) ==
    IF r[1] = "Panic" THEN <<"Panic", "parse_short_time">>
    ELSE IF ~IsSome(r[2]) THEN <<"Panic", "Invalid DATETIME">>
    ELSE <<"Ok", r[2][2]>>

\* Local::now() .. .single().expect("Couldn't determine <now>")
expect_now(r) ==
    IF ~IsSome(r) THEN <<"Panic", "Couldn't determine <now>">> ELSE <<"Ok", r[2]>>

\* the datetime to convert: the DATETIME argument read in from_tz, or now
main_datetime(cli, from_tz, now, checks) ==
    IF IsSome(cli.datetime)
    THEN expect_datetime(parse_datetime_in_tz(from_tz, cli.datetime[2], now, checks))
    ELSE expect_now(single(from_local_datetime(from_tz, ClockTs(now))))

\* the conversion and the printing
main_convert(cli, from_tz, to_tz, datetime) ==
    IF datetime[1] = "Panic"
    THEN Outcome("panic", datetime[2], <<>>, <<>>)
    ELSE Outcome("ok", "", <<convert(datetime[2], to_tz)>>,
                 IF cli.verbose THEN <<<<from_tz, to_tz>>, datetime[2]>> ELSE <<>>)

\* main once the two zones are settled
main_with_zones(cli, from_tz, to_tz, now, checks) ==
    main_convert(cli, from_tz, to_tz, main_datetime(cli, from_tz, now, checks))

\* main from current_tz().expect("Failed to determine current timezone") on
main_with_current(cli, current, now, checks) ==
    IF current[1] = "Err"
    THEN Outcome("panic", "Failed to determine current timezone", <<>>, <<>>)
    ELSE IF current[1] = "Panic"
    THEN Outcome("panic", current[2], <<>>, <<>>)
    ELSE main_with_zones(cli, tz_or_current(cli.from, current[2]),
                         tz_or_current(cli.to, current[2]), now, checks)

\* cli holds the matched arguments: the options to, from and datetime (each
\* an Option of a string) and the flags list and verbose; now is the
\* reading of Local::now()
main(cli, fs, now, checks) ==
    IF ~IsSome(cli.to) /\ ~IsSome(cli.from)
    THEN Outcome("usage", "MissingRequiredArgument", <<>>, <<>>)
    ELSE IF cli.list
    THEN Outcome("ok", "", [i \in 1..Len(TZ_VARIANTS) |-> name(TZ_VARIANTS[i])], <<>>)
    ELSE main_with_current(cli, current_tz(fs), now, checks)

-----------------------------------------------------------------------------
(* Inputs of main *)

MainTzArgs ==
    {None, Some(FooBar), Some(<<"k","o","l","k","a","t","a">>),
     Some(<<"E","u","r","o","p","e","/","L","o","n","d","o","n">>)}

MainDatetimeArgs ==
    {None, Some(<<"5","p","m">>), Some(<<"n","o","t"," ","a"," ","d","a","t","e">>),
     Some(Nines(20) \o <<"a","m">>)}

MainFs ==
    {[timezone |-> <<"File", <<"A","s","i","a","/","K","o","l","k","a","t","a">>>>,
      localtime |-> <<"Absent">>],
     [timezone |-> <<"File", <<"A","s","i","a","/","K","o","l","k","a","t","a","LF">>>>,
      localtime |-> <<"Absent">>],
     [timezone |-> <<"Absent">>,
      localtime |-> <<"Link", TRUE, <<"E","u","r","o","p","e","/","L","o","n","d","o","n">>>>],
     [timezone |-> <<"Absent">>,
      localtime |-> <<"Link", FALSE, <<"E","u","r","o","p","e","/","L","o","n","d","o","n">>>>],
     [timezone |-> <<"Unreadable">>, localtime |-> <<"Absent">>],
     [timezone |-> <<"Absent">>, localtime |-> <<"NotALink">>],
     [timezone |-> <<"Absent">>, localtime |-> <<"Absent">>]}

MainCli ==
    [to : MainTzArgs, from : MainTzArgs, datetime : MainDatetimeArgs,
     list : BOOLEAN, verbose : BOOLEAN]

-----------------------------------------------------------------------------
(* The state machine.  clock is the local clock the program reads with      *)
(* Local::now(); overflow_checks is the build's overflow-checks setting;     *)
(* op, args and ret record the call made last (op is idle between calls);   *)
(* prev is a call remembered from before.                                   *)

Init ==
    /\ clock \in Clocks
    /\ overflow_checks \in BOOLEAN
    /\ op = "idle"
    /\ args = <<>>
    /\ ret = <<>>
    /\ prev = <<>>

\* time passes on the local clock
Tick ==
    /\ op = "idle"
    /\ \E c \in Clocks : ClockTs(c) > ClockTs(clock) /\ clock' = c
    /\ UNCHANGED <<overflow_checks, op, args, ret, prev>>

ParseTzCall ==
    /\ op = "idle"
    /\ \E raw \in TzInputs :
        /\ op' = "parse_tz"
        /\ args' = <<raw>>
        /\ ret' = parse_tz(raw)
    /\ UNCHANGED <<clock, overflow_checks, prev>>

ParseDatetimeCall(Inputs, Zones) ==
    /\ op = "idle"
    /\ \E tz \in Zones, datetime \in Inputs :
        /\ op' = "parse_datetime_in_tz"
        /\ args' = <<tz, datetime>>
        /\ ret' = parse_datetime_in_tz(tz, datetime, clock, overflow_checks)
    /\ UNCHANGED <<clock, overflow_checks, prev>>

ConvertCall ==
    /\ op = "idle"
    /\ \E dt \in ConvertInstants, to_timezone \in Tz :
        /\ op' = "convert"
        /\ args' = <<dt, to_timezone>>
        /\ ret' = convert(dt, to_timezone)
    /\ UNCHANGED <<clock, overflow_checks, prev>>

MainCall ==
    /\ op = "idle"
    /\ \E cli \in MainCli, fs \in MainFs :
        /\ op' = "main"
        /\ args' = <<cli, fs>>
        /\ ret' = main(cli, fs, clock, overflow_checks)
    /\ UNCHANGED <<clock, overflow_checks, prev>>

\* the call has returned and its record is dropped
Done ==
    /\ op # "idle"
    /\ op' = "idle"
    /\ args' = <<>>
    /\ ret' = <<>>
    /\ UNCHANGED <<clock, overflow_checks, prev>>

\* the call is kept, to compare a later call with it
Remember ==
    /\ op = "parse_datetime_in_tz"
    /\ prev = <<>>
    /\ prev' = <<args, ret>>
    /\ op' = "idle"
    /\ args' = <<>>
    /\ ret' = <<>>
    /\ UNCHANGED <<clock, overflow_checks>>

Next ==
    \/ Tick
    \/ ParseTzCall
    \/ ParseDatetimeCall(DatetimeInputs, DatetimeZones)
    \/ ConvertCall
    \/ MainCall
    \/ Done

Spec == Init /\ [][Next]_vars

NextRepeat ==
    \/ Tick
    \/ ParseDatetimeCall(RepeatInputs, RepeatZones)
    \/ Remember
    \/ Done

SpecRepeat == Init /\ [][NextRepeat]_vars

-----------------------------------------------------------------------------
(* Properties of parse_tz *)

\* C1: for every canonical identifier z of the catalog, parse_tz(z.name())
\* returns Some(z): exactly that zone, and not another entry whose name
\* contains the name of z.
C1_ExactMatch ==
    op = "parse_tz" =>
        \A z \in Tz : args[1] = name(z) => ret = Some(z)

\* GMT is resolved to GMT although Etc/GMT, an earlier entry, contains it
C1_Witness ==
    /\ op = "parse_tz"
    /\ args[1] = name("GMT")
    /\ ret = Some("GMT")
    /\ variant_matches("Etc__GMT", to_lowercase(args[1]))

\* C2: when raw is not exactly a canonical identifier, the result is the
\* first entry, in the order of the catalog, whose name lower-cased and with
\* its underscores replaced by spaces contains the lower-cased raw; when no
\* entry contains it the result is None, as for FooBar.
C2_FuzzyFallback ==
    (op = "parse_tz" /\ \A z \in Tz : args[1] # name(z)) =>
        LET raw == to_lowercase(args[1])
            Hit(i) == contains(replace_underscore(to_lowercase(name(TZ_VARIANTS[i]))), raw)
            hits == {i \in 1..Len(TZ_VARIANTS) : Hit(i)}
        IN  /\ hits # {} => ret = Some(TZ_VARIANTS[Min(hits)])
            /\ hits = {} => ret = None
            /\ args[1] = FooBar => ret = None

\* gmt is in the names of two entries and is resolved to the earlier one
C2_Witness ==
    /\ op = "parse_tz"
    /\ args[1] = <<"g","m","t">>
    /\ ret = Some("Etc__GMT")
    /\ variant_matches("GMT", <<"g","m","t">>)

\* raw is the name with letters in another case, or with a space where the
\* name has an underscore
SameUpToCaseAndSpace(raw, n) ==
    /\ Len(raw) = Len(n)
    /\ \A i \in 1..Len(n) :
        \/ to_lowercase_char(raw[i]) = to_lowercase_char(n[i])
        \/ n[i] = "_" /\ raw[i] = " "

\* C3: resolution is case-insensitive and accepts a space for an
\* underscore: for every canonical identifier z and every raw that differs
\* from the name of z only in letter case or in having a space where the
\* name has an underscore, parse_tz(raw) is Some zone whose normalised name
\* contains the normalised raw, and never None.
C3_CaseAndSpaceInsensitive ==
    (op = "parse_tz" /\ \E z \in Tz : SameUpToCaseAndSpace(args[1], name(z))) =>
        /\ IsSome(ret)
        /\ variant_matches(ret[2], replace_underscore(to_lowercase(args[1])))

-----------------------------------------------------------------------------
(* Properties of parse_datetime_in_tz *)

\* C4: parse_datetime_in_tz is total and free of faults: for every input,
\* also one of the short 12-hour shape whose hour or minute field has any
\* number of digits or any value, it returns Some instant or None and never
\* panics; an input of none of the four shapes returns None.
C4_NeverPanics ==
    op = "parse_datetime_in_tz" =>
        /\ ret[1] = "Return"
        /\ normalize(to_lowercase(args[2]), clock, overflow_checks)[1] = "NoShape"
              => ret = <<"Return", None>>

AllAscii(s, from, to) == \A i \in from..to : IsAsciiDigit(s[i])

Field(s, from, to) == DigitsToInt(SubSeq(s, from, to))

\* the number of digits of the hour field that starts s
HourLen(s) == IF Len(s) >= 2 /\ IsAsciiDigit(s[2]) THEN 2 ELSE 1

\* the shape H[H][:MM], an optional space, am or pm
IsShortShape(s) ==
    \E hl \in 1..2, ml \in {0, 3}, sp \in {0, 1} :
        /\ Len(s) = hl + ml + sp + 2
        /\ AllAscii(s, 1, hl)
        /\ ml = 3 => s[hl + 1] = ":" /\ AllAscii(s, hl + 2, hl + 3)
        /\ sp = 1 => s[hl + ml + 1] = " "
        /\ s[Len(s) - 1] \in {"a", "p"}
        /\ s[Len(s)] = "m"

\* the wall-clock hour and minute the shape names
ShortHour(s) ==
    Field(s, 1, HourLen(s)) + (IF s[Len(s) - 1] = "p" THEN 12 ELSE 0)

ShortMinute(s) ==
    IF Len(s) > HourLen(s) + 3 /\ s[HourLen(s) + 1] = ":"
    THEN Field(s, HourLen(s) + 2, HourLen(s) + 3)
    ELSE 0

\* what the library makes of the wall-clock reading y-m-d h:mi in tz: the
\* instant it maps to when the fields are in range and it maps to just one
WallClock(tz, y, m, d, h, mi) ==
    IF ValidDate(y, m, d) /\ h \in 0..23 /\ mi \in 0..59
    THEN single(from_local_datetime(tz, LocalTs(y, m, d, h, mi, 0)))
    ELSE None

\* C5: for a lower-cased input of the shape H[H][:MM], an optional single
\* space, am or pm, the wall-clock time has the minute MM (0 when left out)
\* and the hour typed for am, the hour typed plus 12 for pm, on the current
\* local date, read in the given zone: 3am is 03:00, 10pm is 22:00, 5:30pm
\* is 17:30; 12 is no special case, so 12am is hour 12 and 12pm is hour 24,
\* which is out of range and gives None.
C5_ShortTime ==
    (op = "parse_datetime_in_tz" /\ IsShortShape(to_lowercase(args[2]))) =>
        LET s == to_lowercase(args[2])
        IN  /\ ret = <<"Return", WallClock(args[1], clock.year, clock.month, clock.day,
                                           ShortHour(s), ShortMinute(s))>>
            /\ s = <<"3","a","m">> => ShortHour(s) = 3 /\ ShortMinute(s) = 0
            /\ s = <<"1","0","p","m">> => ShortHour(s) = 22 /\ ShortMinute(s) = 0
            /\ s = <<"5",":","3","0","p","m">> => ShortHour(s) = 17 /\ ShortMinute(s) = 30
            /\ s = <<"1","2","a","m">> => ShortHour(s) = 12
            /\ s = <<"1","2","p","m">> => ret = <<"Return", None>>

\* 5:30pm on 9 July 2021 in Asia/Kolkata
C5_Witness ==
    /\ op = "parse_datetime_in_tz"
    /\ args = <<"Asia__Kolkata", <<"5",":","3","0","p","m">>>>
    /\ clock.day = 9
    /\ ret = <<"Return", Some(ymd_and_hms("Asia__Kolkata", 2021, 7, 9, 17, 30, 0))>>

IsDateShape(s) ==
    /\ Len(s) = 10
    /\ AllAscii(s, 1, 4) /\ s[5] = "-"
    /\ AllAscii(s, 6, 7) /\ s[8] = "-"
    /\ AllAscii(s, 9, 10)

IsTimeShape(s) ==
    /\ Len(s) \in {4, 5}
    /\ AllAscii(s, 1, Len(s) - 3)
    /\ s[Len(s) - 2] = ":"
    /\ AllAscii(s, Len(s) - 1, Len(s))

IsDateTimeShape(s) ==
    /\ Len(s) \in {15, 16}
    /\ IsDateShape(SubSeq(s, 1, 10))
    /\ s[11] = " "
    /\ IsTimeShape(Drop(s, 11))

\* C6: for an input without am or pm: a date YYYY-MM-DD resolves to that
\* date at 00:00 in the zone; a date and time YYYY-MM-DD H[H]:MM to just
\* that date and time in the zone, one-digit and two-digit hours alike; a
\* time H[H]:MM to that time on the date of the local clock.  The result is
\* a wall-clock time in the given zone, not UTC.
C6_Shapes ==
    op = "parse_datetime_in_tz" =>
        LET tz == args[1]
            s  == args[2]
            t  == Drop(s, 11)
            InZone(r, y, m, d, h, mi) ==
                /\ r = <<"Return", WallClock(tz, y, m, d, h, mi)>>
                /\ IsSome(r[2]) =>
                      /\ r[2][2].tz = tz
                      /\ naive_local(r[2][2]) = LocalTs(y, m, d, h, mi, 0)
        IN  /\ IsDateShape(s) =>
                InZone(ret, Field(s, 1, 4), Field(s, 6, 7), Field(s, 9, 10), 0, 0)
            /\ IsDateTimeShape(s) =>
                InZone(ret, Field(s, 1, 4), Field(s, 6, 7), Field(s, 9, 10),
                       Field(t, 1, Len(t) - 3), Field(t, Len(t) - 1, Len(t)))
            /\ IsTimeShape(s) =>
                InZone(ret, clock.year, clock.month, clock.day,
                       Field(s, 1, Len(s) - 3), Field(s, Len(s) - 1, Len(s)))

\* 2021-07-09 5:00 in Asia/Kolkata, which is 2021-07-08 23:30 UTC
C6_Witness ==
    /\ op = "parse_datetime_in_tz"
    /\ args = <<"Asia__Kolkata", <<"2","0","2","1","-","0","7","-","0","9"," ","5",":","0","0">>>>
    /\ ret = <<"Return", Some(DateTime(LocalTs(2021, 7, 8, 23, 30, 0), "Asia__Kolkata"))>>

\* C7: parsing is deterministic: no hidden state is read, so two calls with
\* the same string and the same zone return the same result whenever they
\* are made, also a time-only or am/pm input before and after midnight.
C7_Deterministic ==
    (op = "parse_datetime_in_tz" /\ prev # <<>> /\ prev[1] = args) => prev[2] = ret

\* C10: a wall-clock time that maps to just one instant of the zone yields
\* Some of that instant; one that is ambiguous (two instants, the fold) or
\* nonexistent (no instant, the gap) yields None, never one of the instants
\* and never a panic.
C10_DstPolicy ==
    op = "parse_datetime_in_tz" =>
        LET n == normalize(to_lowercase(args[2]), clock, overflow_checks)
            p == parse_items(n[2])
            w == to_naive_datetime(p[2])
        IN  (n[1] = "Ok" /\ p[1] = "Ok" /\ w[1] = "Ok") =>
                LET c == {u \in {w[2] - o : o \in UNION {Offsets(z) : z \in Tz}} :
                            u + OffsetAt(args[1], u) = w[2]}
                IN  /\ Cardinality(c) = 1 =>
                        ret = <<"Return", Some(DateTime(Min(c), args[1]))>>
                    /\ Cardinality(c) # 1 => ret = <<"Return", None>>

\* 01:30 on 31 October 2021 in Europe/London is 00:30 UTC and 01:30 UTC
C10_Witness ==
    /\ op = "parse_datetime_in_tz"
    /\ args = <<"Europe__London", <<"2","0","2","1","-","1","0","-","3","1"," ","0","1",":","3","0">>>>
    /\ LocalTs(2021, 10, 31, 0, 30, 0) + OffsetAt("Europe__London", LocalTs(2021, 10, 31, 0, 30, 0))
         = LocalTs(2021, 10, 31, 1, 30, 0)
    /\ LocalTs(2021, 10, 31, 1, 30, 0) + OffsetAt("Europe__London", LocalTs(2021, 10, 31, 1, 30, 0))
         = LocalTs(2021, 10, 31, 1, 30, 0)
    /\ ret = <<"Return", None>>

-----------------------------------------------------------------------------
(* Properties of convert and of main *)

\* C8: convert is total and keeps the absolute instant: convert(i, b) is
\* the instant of i with the wall clock of b (2021-01-01 08:08:08 in
\* Europe/London is 2021-01-01 13:38:08 in Asia/Kolkata), and converting
\* the result back to the zone of i gives the instant of i.
C8_ConvertKeepsInstant ==
    op = "convert" =>
        LET i == args[1]
            b == args[2]
        IN  /\ ret.utc = i.utc
            /\ ret.tz = b
            /\ naive_local(ret) = i.utc + OffsetAt(b, i.utc)
            /\ convert(ret, i.tz).utc = i.utc
            /\ (i = ymd_and_hms("Europe__London", 2021, 1, 1, 8, 8, 8) /\ b = "Asia__Kolkata")
                  => /\ naive_local(ret) = LocalTs(2021, 1, 1, 13, 38, 8)
                     /\ ret = ymd_and_hms("Asia__Kolkata", 2021, 1, 1, 13, 38, 8)

C8_Witness ==
    /\ op = "convert"
    /\ args = <<ymd_and_hms("Europe__London", 2021, 1, 1, 8, 8, 8), "Asia__Kolkata">>
    /\ naive_local(ret) = LocalTs(2021, 1, 1, 13, 38, 8)

\* the option was given and its string matches no entry of the catalog
Unresolved(value) == IsSome(value) /\ ~IsSome(parse_tz(value[2]))

\* C9: an unresolved timezone and an unparseable datetime are distinct
\* failures: when the --to or --from string matches no entry of the
\* catalog, the run fails and prints no converted instant; when the
\* DATETIME is unparseable the run fails with another failure; an instant
\* is printed only when every timezone string given was resolved and the
\* datetime, if given, was parsed.
C9_DistinctFailures ==
    (op = "main" /\ ret.exit # "usage" /\ ~args[1].list) =>
        LET cli == args[1]
            unresolved == Unresolved(cli.to) \/ Unresolved(cli.from)
        IN  /\ unresolved => ret.exit = "panic" /\ ret.stdout = <<>>
            /\ unresolved => ret.msg # "Invalid DATETIME"
            /\ ret.stdout # <<>> => ~unresolved
            /\ (/\ ~unresolved
                /\ current_tz(args[2])[1] = "Ok"
                /\ IsSome(cli.datetime)
                /\ parse_datetime_in_tz(tz_or_current(cli.from, current_tz(args[2])[2]),
                                        cli.datetime[2], clock, overflow_checks)
                      = <<"Return", None>>)
                  => ret.exit = "panic" /\ ret.msg = "Invalid DATETIME" /\ ret.stdout = <<>>

=============================================================================
